---- MODULE Spec2Model ----
(***************************************************************************)
(* Model of payments.py: a sequential script that resolves an admin        *)
(* identity, enumerates users, selects a target, reads a session cookie,   *)
(* verifies its owner and fires one POST /payments probe.                  *)
(*                                                                         *)
(* JSON objects are TLA+ records (a missing key is a missing field), JSON  *)
(* arrays of strings and input lines are sequences, Python's None is the   *)
(* record None.  The remote server and the operator are the environment:   *)
(* every response and every typed line is drawn from a finite set.         *)
(* requests, responses and typed are the history of what was sent,         *)
(* received and read; a blocking call either completes, raises an          *)
(* ordinary exception or is interrupted from the keyboard.                 *)
(***************************************************************************)
EXTENDS Integers, Sequences, FiniteSets, TLC

VARIABLES pc, requests, responses, platform_manager, platform_manager_id,
          all_users, standard_users, shown_users, target_user, target_user_id,
          typed, session_cookie, standard_user, proceed,
          payment_data, printed, raised, exit_code

vars == <<pc, requests, responses, platform_manager, platform_manager_id,
          all_users, standard_users, shown_users, target_user, target_user_id,
          typed, session_cookie, standard_user, proceed,
          payment_data, printed, raised, exit_code>>

----------------------------------------------------------------------------
(* Bounds and program constants *)

\* longest user list the enumeration endpoint returns in the model
MaxUsers == 3

\* standard_users[:5]
ShowLimit == 5

BASE_URL == "https://app.doubleword.ai"
\* opaque bearer token
PLATFORM_MANAGER_API_KEY == "sk-platform-manager"

----------------------------------------------------------------------------
(* Python values *)

None == [None |-> TRUE]
NoneStr == "None"
EmptyDict == <<>>

\* dict.get(k, default)
Get(d, k, default) == IF k \in DOMAIN d THEN d[k] ELSE default

\* x in list
In(x, list) == \E i \in 1..Len(list) : list[i] = x

\* truthiness of an Optional[dict]
TruthyDict(v) == v # None /\ DOMAIN v # {}

\* a Python list value; None stays the record None
List(items) == [items |-> items]

\* truthiness of an Optional[list]
TruthyList(v) == v # None /\ Len(v.items) > 0

Whitespace == {" ", "\t"}

RECURSIVE LStrip(_)
LStrip(s) == IF s # <<>> /\ Head(s) \in Whitespace THEN LStrip(Tail(s)) ELSE s

RECURSIVE RStrip(_)
RStrip(s) == IF s # <<>> /\ s[Len(s)] \in Whitespace
             THEN RStrip(SubSeq(s, 1, Len(s) - 1)) ELSE s

\* variant: the line is used as typed
StripKeepsBlanks(s) == s

\* str.strip(), on a line given as a sequence of characters
Strip(s) == LStrip(RStrip(s))

LowerChar(c) == CASE c = "Y" -> "y"
                  [] c = "N" -> "n"
                  [] c = "E" -> "e"
                  [] c = "S" -> "s"
                  [] OTHER -> c

\* str.lower()
Lower(s) == [i \in 1..Len(s) |-> LowerChar(s[i])]

----------------------------------------------------------------------------
(* The environment: HTTP responses, transport failures, typed lines *)

\* response bodies: not JSON at all, a JSON array, or a JSON object
TextBody == [kind |-> "text"]
ArrayBody == [kind |-> "array"]
ObjectBody(d) == [kind |-> "object", value |-> d]

Response(status, body) == [status |-> status, body |-> body]

ErrorObject == [error |-> "denied"]

\* user records as the remote service may return them
UserU1 == [id |-> "u1", roles |-> <<"StandardUser">>, is_admin |-> FALSE]
UserU2 == [id |-> "u2", roles |-> <<"StandardUser">>]
UserU3 == [id |-> "u3", roles |-> <<"StandardUser">>, is_admin |-> TRUE]
UserU4 == [id |-> "u4", roles |-> <<"PlatformManager">>, is_admin |-> FALSE]
UserU5 == [id |-> "u5"]
UserU6 == [id |-> "u6", roles |-> <<"StandardUser", "BillingManager">>, is_admin |-> FALSE]

UserRecords == {UserU1, UserU2, UserU3, UserU4, UserU5, UserU6}

UserLists == UNION {[1..n -> UserRecords] : n \in 0..MaxUsers}

IdentityStatuses == {200, 401}
IdentityBodies == {TextBody, ArrayBody, ObjectBody(EmptyDict), ObjectBody(ErrorObject)}
                     \cup {ObjectBody(u) : u \in UserRecords}
IdentityResponses == {Response(s, b) : s \in IdentityStatuses, b \in IdentityBodies}

AdminIdentityResponses ==
    {Response(s, b) : s \in IdentityStatuses,
                      b \in {TextBody, ArrayBody, ObjectBody(EmptyDict),
                             ObjectBody(ErrorObject), ObjectBody(UserU4)}}

ListStatuses == {200, 403}
ListBodies == {TextBody, ArrayBody, ObjectBody(EmptyDict)}
                 \cup {ObjectBody([data |-> l]) : l \in UserLists}
ListResponses == {Response(s, b) : s \in ListStatuses, b \in ListBodies}

PaymentStatuses == {200, 401, 403, 500}
PaymentBodies == {TextBody, ArrayBody, ObjectBody(EmptyDict), ObjectBody(ErrorObject),
                  ObjectBody([url |-> <<"https://pay.example/checkout/", "u1">>]),
                  ObjectBody([url |-> <<"https://pay.example/checkout/", "session">>])}
PaymentResponses == {Response(s, b) : s \in PaymentStatuses, b \in PaymentBodies}

\* what a blocking requests.get / requests.post can do
Arrived(resp) == [type |-> "response", response |-> resp]
TransportError == [type |-> "raise", exc |-> "Exception"]
Interrupted == [type |-> "raise", exc |-> "KeyboardInterrupt"]
NetOutcomes(resps) == {Arrived(r) : r \in resps} \cup {TransportError, Interrupted}

\* what a blocking input() can do
Typed(line) == [type |-> "line", line |-> line]
EndOfInput == [type |-> "raise", exc |-> "Exception"]
CookieLines == {<<>>, <<" ">>, <<"\t", " ">>, <<"c", "1">>, <<" ", "c", "2", "\t">>}
ConfirmLines == {<<>>, <<"y">>, <<"Y">>, <<" ", "Y", "\t">>, <<"n">>, <<"y", "e", "s">>, <<"y", " ">>}
InputOutcomes(lines) == {Typed(l) : l \in lines} \cup {EndOfInput, Interrupted}

----------------------------------------------------------------------------
(* The request functions *)

Return(value, out) == [tag |-> "return", value |-> value, out |-> out]
Raise(exc, out) == [tag |-> "raise", exc |-> exc, out |-> out]

CurrentUserUrl == <<BASE_URL, "/admin/api/v1/users/current">>
UsersUrl == <<BASE_URL, "/admin/api/v1/users">>
PaymentsUrl == <<BASE_URL, "/admin/api/v1/payments">>

\* requests.get(.../users/current, headers={"Authorization": "Bearer <key>"})
ApiKeyIdentityRequest(api_key) ==
    [method |-> "GET", url |-> CurrentUserUrl,
     headers |-> [Authorization |-> <<"Bearer", api_key>>]]

\* requests.get(.../users/current, cookies={"dw_cookie": session_cookie})
SessionIdentityRequest(cookie) ==
    [method |-> "GET", url |-> CurrentUserUrl, cookies |-> [dw_cookie |-> cookie]]

\* requests.get(.../users, headers={"Authorization": "Bearer <key>"})
ListUsersRequest(api_key) ==
    [method |-> "GET", url |-> UsersUrl,
     headers |-> [Authorization |-> <<"Bearer", api_key>>]]

\* variant: the probe also sends the administrative bearer token
PaymentRequestWithBearer(cookie, creditee_id) ==
    [method |-> "POST", url |-> PaymentsUrl,
     params |-> [creditee_id |-> creditee_id], cookies |-> [dw_cookie |-> cookie],
     headers |-> [Authorization |-> <<"Bearer", PLATFORM_MANAGER_API_KEY>>]]

\* requests.post(.../payments, params={"creditee_id": id}, cookies={"dw_cookie": c})
PaymentRequest(cookie, creditee_id) ==
    [method |-> "POST", url |-> PaymentsUrl,
     params |-> [creditee_id |-> creditee_id], cookies |-> [dw_cookie |-> cookie]]

\* get_user_info_with_api_key, given what requests.get did
get_user_info_with_api_key(net) ==
    IF net.type = "raise" THEN Raise(net.exc, {})
    ELSE IF net.response.status = 200
         THEN IF net.response.body.kind # "object"
              THEN Raise("Exception", {})  \* response.json() or user_data.get raises
              ELSE Return(net.response.body.value, {"USER_INFO"})
         ELSE Return(None, {"FAILED_USER_INFO"})

\* variant: the session identity call decodes the body whatever the status
get_user_info_with_session_any_status(net) ==
    IF net.type = "raise" THEN Raise(net.exc, {})
    ELSE IF net.response.body.kind # "object"
         THEN Raise("Exception", {})
         ELSE Return(net.response.body.value, {"USER_INFO"})

\* get_user_info_with_session, given what requests.get did
get_user_info_with_session(net) ==
    IF net.type = "raise" THEN Raise(net.exc, {})
    ELSE IF net.response.status = 200
         THEN IF net.response.body.kind # "object"
              THEN Raise("Exception", {})
              ELSE Return(net.response.body.value, {"USER_INFO"})
         ELSE Return(None, {"FAILED_USER_INFO"})

\* the predicate of the list comprehension in list_all_users_with_api_key
IsStandardUser(u) ==
    In("StandardUser", Get(u, "roles", <<>>)) /\ ~Get(u, "is_admin", FALSE)

\* standard_users[:5]
FirstFive(list) == SubSeq(list, 1, IF Len(list) < ShowLimit THEN Len(list) ELSE ShowLimit)

\* list_all_users_with_api_key, given what requests.get did; the record
\* also carries the function's local standard_users and the slice it prints
list_all_users_with_api_key(net) ==
    IF net.type = "raise" THEN Raise(net.exc, {})
    ELSE IF net.response.status = 200
         THEN IF net.response.body.kind # "object"
              THEN Raise("Exception", {})
              ELSE LET users == Get(net.response.body.value, "data", <<>>)
                       standard == SelectSeq(users, IsStandardUser)
                   IN  [tag |-> "return", value |-> List(users), out |-> {"FOUND_USERS"},
                        standard_users |-> standard, shown |-> FirstFive(standard)]
         ELSE [tag |-> "return", value |-> None, out |-> {"FAILED_LIST"},
               standard_users |-> <<>>, shown |-> <<>>]

\* variant: the 403 branch decodes the body without the try/except
create_payment_with_session_no_except(net) ==
    IF net.type = "raise" THEN Raise(net.exc, {})
    ELSE IF net.response.status = 200
         THEN IF net.response.body.kind # "object"
              THEN Raise("Exception", {"STATUS_CODE"})
              ELSE Return(net.response.body.value, {"STATUS_CODE", "PAYMENT_CREATED"})
         ELSE IF net.response.status = 403
              THEN IF net.response.body.kind = "text"
                   THEN Raise("Exception", {"STATUS_CODE"})
                   ELSE Return(None, {"STATUS_CODE", "BLOCKED"})
              ELSE Return(None, {"STATUS_CODE", "UNEXPECTED_RESPONSE"})

\* create_payment_with_session, given what requests.post did
create_payment_with_session(net) ==
    IF net.type = "raise" THEN Raise(net.exc, {})
    ELSE IF net.response.status = 200
         THEN IF net.response.body.kind # "object"
              THEN Raise("Exception", {"STATUS_CODE"})
              ELSE Return(net.response.body.value, {"STATUS_CODE", "PAYMENT_CREATED"})
         ELSE IF net.response.status = 403
              THEN Return(None, {"STATUS_CODE", "BLOCKED"})  \* try/except: either body
              ELSE Return(None, {"STATUS_CODE", "UNEXPECTED_RESPONSE"})

----------------------------------------------------------------------------
(* main() and the top-level handler *)

\* variant: the target loop forgets the administrator flag
IsTargetIgnoringAdmin(user) ==
    In("StandardUser", Get(user, "roles", <<>>))

\* the condition of the target loop in main()
IsTarget(user) ==
    In("StandardUser", Get(user, "roles", <<>>)) /\ ~Get(user, "is_admin", FALSE)

\* for user in all_users: if ...: target_user = user; break
RECURSIVE FindTarget(_)
FindTarget(users) ==
    IF users = <<>> THEN None
    ELSE IF IsTarget(Head(users)) THEN Head(users)
    ELSE FindTarget(Tail(users))

\* variant: the privilege check forgets the BillingManager role
IsElevatedWithoutBilling(roles, is_admin) ==
    is_admin \/ In("PlatformManager", roles)

\* the condition guarding the "Continue anyway?" prompt
IsElevated(roles, is_admin) ==
    is_admin \/ In("PlatformManager", roles) \/ In("BillingManager", roles)

SystemExit(code) == [type |-> "SystemExit", code |-> code]
KeyboardInterrupt == [type |-> "KeyboardInterrupt"]
Exception == [type |-> "Exception"]
NotRaised == [type |-> "None"]

Exc(name) == IF name = "KeyboardInterrupt" THEN KeyboardInterrupt ELSE Exception

\* variant: the generic handler also catches SystemExit
ExitStatusCatchingSystemExit(exc) ==
    IF exc.type = "KeyboardInterrupt" THEN 130 ELSE 1

\* the try/except of the __main__ block: the status the process ends with
ExitStatus(exc) ==
    IF exc.type = "SystemExit" THEN exc.code   \* not an Exception: propagates
    ELSE IF exc.type = "KeyboardInterrupt" THEN 130
    ELSE 1

\* what the __main__ handlers print
HandlerOutput(exc) ==
    IF exc.type = "KeyboardInterrupt" THEN {"INTERRUPTED"}
    ELSE IF exc.type = "Exception" THEN {"UNEXPECTED_ERROR", "TRACEBACK"}
    ELSE {}

\* an exception leaves main() and reaches the __main__ block
Terminate(exc, out) ==
    /\ pc' = "exited"
    /\ raised' = exc
    /\ exit_code' = ExitStatus(exc)
    /\ printed' = printed \cup out \cup HandlerOutput(exc)

Init ==
    /\ pc = "platform_manager"
    /\ requests = <<>>
    /\ responses = <<>>
    /\ platform_manager = None
    /\ platform_manager_id = NoneStr
    /\ all_users = None
    /\ standard_users = <<>>
    /\ shown_users = <<>>
    /\ target_user = None
    /\ target_user_id = NoneStr
    /\ typed = <<>>
    /\ session_cookie = <<>>
    /\ standard_user = None
    /\ proceed = <<>>
    /\ payment_data = None
    /\ printed = {"BANNER"}
    /\ raised = NotRaised
    /\ exit_code = -1

\* platform_manager = get_user_info_with_api_key(...); if not platform_manager: sys.exit(1)
GetPlatformManager ==
    /\ pc = "platform_manager"
    /\ \E net \in NetOutcomes(AdminIdentityResponses) :
         LET res == get_user_info_with_api_key(net) IN
         /\ requests' = Append(requests, ApiKeyIdentityRequest(PLATFORM_MANAGER_API_KEY))
         /\ responses' = IF net.type = "response"
                         THEN Append(responses, net.response) ELSE responses
         /\ IF res.tag = "raise"
            THEN /\ Terminate(Exc(res.exc), res.out)
                 /\ UNCHANGED <<platform_manager, platform_manager_id>>
            ELSE /\ platform_manager' = res.value
                 /\ IF ~TruthyDict(res.value)
                    THEN /\ Terminate(SystemExit(1), res.out \cup {"FAILED_PLATFORM_MANAGER"})
                         /\ UNCHANGED platform_manager_id
                    ELSE /\ platform_manager_id' = Get(res.value, "id", NoneStr)
                         /\ pc' = "list_users"
                         /\ printed' = printed \cup res.out
                         /\ UNCHANGED <<raised, exit_code>>
    /\ UNCHANGED <<all_users, standard_users, shown_users, target_user, target_user_id,
                   typed, session_cookie, standard_user, proceed, payment_data>>

\* all_users = list_all_users_with_api_key(...); the target loop; target_user_id
ListUsers ==
    /\ pc = "list_users"
    /\ \E net \in NetOutcomes(ListResponses) :
         LET res == list_all_users_with_api_key(net) IN
         /\ requests' = Append(requests, ListUsersRequest(PLATFORM_MANAGER_API_KEY))
         /\ responses' = IF net.type = "response"
                         THEN Append(responses, net.response) ELSE responses
         /\ IF res.tag = "raise"
            THEN /\ Terminate(Exc(res.exc), res.out)
                 /\ UNCHANGED <<all_users, standard_users, shown_users,
                                target_user, target_user_id>>
            ELSE /\ all_users' = res.value
                 /\ standard_users' = res.standard_users
                 /\ shown_users' = res.shown
                 /\ IF ~TruthyList(res.value)
                    THEN /\ Terminate(SystemExit(1), res.out \cup {"FAILED_LIST_USERS"})
                         /\ UNCHANGED <<target_user, target_user_id>>
                    ELSE LET target == FindTarget(res.value.items) IN
                         /\ target_user' = target
                         /\ IF ~TruthyDict(target)
                            THEN /\ Terminate(SystemExit(1), res.out \cup {"NO_TARGET"})
                                 /\ UNCHANGED target_user_id
                            ELSE /\ target_user_id' = Get(target, "id", NoneStr)
                                 /\ pc' = "cookie_prompt"
                                 /\ printed' = printed \cup res.out \cup {"WILL_GIFT"}
                                 /\ UNCHANGED <<raised, exit_code>>
    /\ UNCHANGED <<platform_manager, platform_manager_id, typed, session_cookie,
                   standard_user, proceed, payment_data>>

\* session_cookie = input(...).strip(); if not session_cookie: sys.exit(1)
ReadSessionCookie ==
    /\ pc = "cookie_prompt"
    /\ \E inp \in InputOutcomes(CookieLines) :
         IF inp.type = "raise"
         THEN /\ Terminate(Exc(inp.exc), {"MANUAL_STEP"})
              /\ UNCHANGED <<typed, session_cookie>>
         ELSE /\ typed' = Append(typed, inp.line)
              /\ session_cookie' = Strip(inp.line)
              /\ IF Strip(inp.line) = <<>>
                 THEN Terminate(SystemExit(1), {"MANUAL_STEP", "NO_COOKIE"})
                 ELSE /\ pc' = "verify_session"
                      /\ printed' = printed \cup {"MANUAL_STEP"}
                      /\ UNCHANGED <<raised, exit_code>>
    /\ UNCHANGED <<requests, responses, platform_manager, platform_manager_id,
                   all_users, standard_users, shown_users, target_user, target_user_id,
                   standard_user, proceed, payment_data>>

\* standard_user = get_user_info_with_session(...); the privilege check
VerifySession ==
    /\ pc = "verify_session"
    /\ \E net \in NetOutcomes(IdentityResponses) :
         LET res == get_user_info_with_session(net) IN
         /\ requests' = Append(requests, SessionIdentityRequest(session_cookie))
         /\ responses' = IF net.type = "response"
                         THEN Append(responses, net.response) ELSE responses
         /\ IF res.tag = "raise"
            THEN /\ Terminate(Exc(res.exc), res.out)
                 /\ UNCHANGED standard_user
            ELSE /\ standard_user' = res.value
                 /\ IF ~TruthyDict(res.value)
                    THEN Terminate(SystemExit(1), res.out \cup {"FAILED_SESSION"})
                    ELSE LET roles == Get(res.value, "roles", <<>>)
                             is_admin == Get(res.value, "is_admin", FALSE)
                         IN  /\ IF IsElevated(roles, is_admin)
                                THEN /\ pc' = "confirm_prompt"
                                     /\ printed' = printed \cup res.out \cup {"WARNING_ELEVATED"}
                                ELSE /\ pc' = "probe"
                                     /\ printed' = printed \cup res.out
                             /\ UNCHANGED <<raised, exit_code>>
    /\ UNCHANGED <<platform_manager, platform_manager_id, all_users, standard_users,
                   shown_users, target_user, target_user_id, typed, session_cookie,
                   proceed, payment_data>>

\* proceed = input("Continue anyway? (y/N): ").strip().lower(); if proceed != 'y': sys.exit(1)
ConfirmElevated ==
    /\ pc = "confirm_prompt"
    /\ \E inp \in InputOutcomes(ConfirmLines) :
         IF inp.type = "raise"
         THEN /\ Terminate(Exc(inp.exc), {})
              /\ UNCHANGED <<typed, proceed>>
         ELSE /\ typed' = Append(typed, inp.line)
              /\ proceed' = Lower(Strip(inp.line))
              /\ IF Lower(Strip(inp.line)) # <<"y">>
                 THEN Terminate(SystemExit(1), {})
                 ELSE /\ pc' = "probe"
                      /\ UNCHANGED <<printed, raised, exit_code>>
    /\ UNCHANGED <<requests, responses, platform_manager, platform_manager_id,
                   all_users, standard_users, shown_users, target_user, target_user_id,
                   session_cookie, standard_user, payment_data>>

\* the rest of main() after create_payment_with_session returned data
AnalyzeResults(data, creditee_id) ==
    IF TruthyDict(data)
    THEN IF creditee_id = NoneStr
         THEN Raise("Exception", {"RESULTS", "VULNERABILITY_CONFIRMED"})  \* None in str
         ELSE Return(1, {"RESULTS", "VULNERABILITY_CONFIRMED", "RECOMMENDED_FIX"}
                        \cup IF In(creditee_id, Get(data, "url", <<>>))
                             THEN {"URL_CONTAINS_TARGET"} ELSE {})
    ELSE Return(0, {"RESULTS", "CHECK_PASSED"})

\* payment_data = create_payment_with_session(...); the verdict; sys.exit(exit_code)
Probe ==
    /\ pc = "probe"
    /\ \E net \in NetOutcomes(PaymentResponses) :
         LET res == create_payment_with_session(net) IN
         /\ requests' = Append(requests, PaymentRequest(session_cookie, target_user_id))
         /\ responses' = IF net.type = "response"
                         THEN Append(responses, net.response) ELSE responses
         /\ IF res.tag = "raise"
            THEN /\ Terminate(Exc(res.exc), {"ATTEMPT"} \cup res.out)
                 /\ UNCHANGED payment_data
            ELSE LET verdict == AnalyzeResults(res.value, target_user_id) IN
                 /\ payment_data' = res.value
                 /\ IF verdict.tag = "raise"
                    THEN Terminate(Exc(verdict.exc), {"ATTEMPT"} \cup res.out \cup verdict.out)
                    ELSE Terminate(SystemExit(verdict.value),
                                   {"ATTEMPT"} \cup res.out \cup verdict.out)
    /\ UNCHANGED <<platform_manager, platform_manager_id, all_users, standard_users,
                   shown_users, target_user, target_user_id, typed, session_cookie,
                   standard_user, proceed>>

Next ==
    \/ GetPlatformManager
    \/ ListUsers
    \/ ReadSessionCookie
    \/ VerifySession
    \/ ConfirmElevated
    \/ Probe

Spec == Init /\ [][Next]_vars

----------------------------------------------------------------------------
(* Properties *)

Exited == pc = "exited"

PostIndexes == {i \in 1..Len(requests) : requests[i].method = "POST"}
PostIssued == PostIndexes # {}

\* the POST was answered with a status in the set
PostAnswered(statuses) ==
    \E i \in PostIndexes : i <= Len(responses) /\ responses[i].status \in statuses

\* the body of the answer to the POST is of the kind
PostBodyKind(kind) ==
    \E i \in PostIndexes : i <= Len(responses) /\ responses[i].body.kind = kind

\* C1: whenever the POST to the payments endpoint is answered with status
\* 200, whatever the body, the run reports "vulnerability confirmed" and the
\* process exits with a non-zero status.
C1_Status200ReportsVulnerability ==
    PostAnswered({200}) =>
        /\ Exited
        /\ "VULNERABILITY_CONFIRMED" \in printed
        /\ exit_code # 0

\* C2: whenever the POST is answered with a status other than 200 and 403,
\* the run reports "unexpected" and exits non-zero; it never ends in "check
\* passed" with exit status 0.
C2_OtherStatusFails ==
    PostAnswered(PaymentStatuses \ {200, 403}) =>
        /\ Exited
        /\ "UNEXPECTED_RESPONSE" \in printed
        /\ exit_code # 0
        /\ "CHECK_PASSED" \notin printed

\* C3: whenever the POST is answered with status 403, the run reports "check
\* passed" and the process exits with status 0, whether or not the body is
\* valid JSON.
C3_Status403Passes ==
    PostAnswered({403}) =>
        /\ Exited
        /\ "CHECK_PASSED" \in printed
        /\ "VULNERABILITY_CONFIRMED" \notin printed
        /\ exit_code = 0

C3_Witness ==
    /\ Exited
    /\ PostAnswered({403})
    /\ PostBodyKind("text")
    /\ exit_code = 0

\* a record qualifies: its roles contain StandardUser and it is not flagged admin
Qualifies(u) ==
    /\ "roles" \in DOMAIN u
    /\ \E k \in 1..Len(u.roles) : u.roles[k] = "StandardUser"
    /\ "is_admin" \in DOMAIN u => u.is_admin = FALSE

\* C4: once the enumeration call returned a user list, the target is the first
\* record in list order that qualifies, no target is chosen when none
\* qualifies, and every candidate kept or printed by the enumerator qualifies.
C4_TargetIsFirstStandardUser ==
    all_users # None =>
        LET users == all_users.items
            hits == {i \in 1..Len(users) : Qualifies(users[i])}
        IN  /\ hits = {} => target_user = None
            /\ hits # {} =>
                 \E i \in hits : /\ \A j \in hits : i <= j
                                 /\ target_user = users[i]
                                 /\ target_user_id = users[i].id
            /\ \A k \in 1..Len(standard_users) : Qualifies(standard_users[k])
            /\ \A k \in 1..Len(shown_users) : Qualifies(shown_users[k])
            /\ \A i \in 1..Len(users) :
                 ~Qualifies(users[i]) =>
                     /\ target_user # users[i]
                     /\ \A k \in 1..Len(standard_users) : standard_users[k] # users[i]

C4_Witness ==
    /\ all_users # None
    /\ Len(all_users.items) = 3
    /\ all_users.items[1] = UserU3
    /\ all_users.items[2] = UserU2
    /\ all_users.items[3] = UserU1
    /\ target_user = UserU2
    /\ standard_users = <<UserU2, UserU1>>

\* the line holds nothing but whitespace
Blank(line) == \A i \in 1..Len(line) : line[i] \in Whitespace

SessionRequestIssued ==
    \E i \in 1..Len(requests) : "cookies" \in DOMAIN requests[i]

\* C5: if the line read at the session-cookie prompt is empty or only
\* whitespace, the run ends with exit status 1 and neither the session
\* identity request nor the payments POST is issued.
C5_BlankCookieTerminates ==
    (Len(typed) >= 1 /\ Blank(typed[1])) =>
        /\ Exited
        /\ exit_code = 1
        /\ ~SessionRequestIssued
        /\ ~PostIssued

C5_Witness ==
    /\ Len(typed) = 1
    /\ typed[1] = <<"\t", " ">>
    /\ Exited
    /\ exit_code = 1
    /\ "NO_COOKIE" \in printed

\* the owner of the session cookie is admin or holds a manager role
OwnerElevated ==
    /\ standard_user # None
    /\ \/ ("is_admin" \in DOMAIN standard_user /\ standard_user.is_admin)
       \/ /\ "roles" \in DOMAIN standard_user
          /\ \E k \in 1..Len(standard_user.roles) :
                standard_user.roles[k] \in {"PlatformManager", "BillingManager"}

\* the line is a single y or Y, possibly surrounded by whitespace
SaysYes(line) ==
    \E i \in 1..Len(line) :
        /\ line[i] \in {"y", "Y"}
        /\ \A j \in 1..(i - 1) : line[j] \in Whitespace
        /\ \A j \in (i + 1)..Len(line) : line[j] \in Whitespace

\* C6: the POST is issued only if the session owner is not elevated or the
\* operator answered y at the confirmation prompt; any other answer ends the
\* run with exit status 1 before the POST.
C6_ElevatedNeedsConfirmation ==
    /\ PostIssued => (~OwnerElevated \/ (Len(typed) = 2 /\ SaysYes(typed[2])))
    /\ (Len(typed) = 2 /\ ~SaysYes(typed[2])) =>
           (Exited /\ exit_code = 1 /\ ~PostIssued)
    /\ (OwnerElevated /\ Len(typed) < 2) => ~PostIssued

C6_Witness ==
    /\ PostIssued
    /\ OwnerElevated
    /\ standard_user = UserU6
    /\ typed[2] = <<" ", "Y", "\t">>

\* the i-th request was answered with a status other than 200
FailedAt(i) == Len(responses) >= i /\ responses[i].status # 200

\* the enumeration returned a non-empty list in which no record qualifies
NoneQualifies ==
    /\ all_users # None
    /\ Len(all_users.items) > 0
    /\ \A i \in 1..Len(all_users.items) : ~Qualifies(all_users.items[i])

\* C7: a non-200 answer to the admin identity call, to the enumeration call
\* or to the session identity call, or a list without a qualifying user, ends
\* the run with exit status 1; no request follows the failing step and the
\* POST is never issued.
C7_SetupFailureIsTerminal ==
    /\ FailedAt(1) => (Exited /\ exit_code = 1 /\ Len(requests) = 1)
    /\ FailedAt(2) => (Exited /\ exit_code = 1 /\ Len(requests) = 2)
    /\ NoneQualifies => (Exited /\ exit_code = 1 /\ Len(requests) = 2)
    /\ (Len(requests) >= 3 /\ FailedAt(3)) =>
           (Exited /\ exit_code = 1 /\ Len(requests) = 3 /\ ~PostIssued)

C7_Witness ==
    /\ Exited
    /\ Len(requests) = 3
    /\ FailedAt(3)
    /\ responses[3].body = ObjectBody(UserU1)
    /\ exit_code = 1

\* C8: the process ends with a status in {0, 1, 130}: 130 after a keyboard
\* interruption, 1 after any other exception, and the status of an explicit
\* exit unchanged.
C8_ExitStatuses ==
    Exited =>
        /\ exit_code \in {0, 1, 130}
        /\ raised.type \in {"SystemExit", "KeyboardInterrupt", "Exception"}
        /\ raised.type = "KeyboardInterrupt" => exit_code = 130
        /\ raised.type = "Exception" => exit_code = 1
        /\ raised.type = "SystemExit" => exit_code = raised.code
        /\ ("CHECK_PASSED" \in printed /\ raised.type = "SystemExit") => exit_code = 0

C8_Witness ==
    /\ Exited
    /\ raised = SystemExit(0)
    /\ exit_code = 0
    /\ "UNEXPECTED_ERROR" \notin printed

\* the request carries the administrative bearer token
HasBearer(req) == "headers" \in DOMAIN req

\* C9: the POST is issued at most once, as the fourth request, after the admin
\* identity call and the enumeration call were answered 200, a target was
\* selected, a non-empty cookie was read and the session identity call was
\* answered 200; it carries the session cookie and no bearer token, its
\* creditee_id is the target's id, and only the two admin GETs carry the
\* bearer token.
C9_SingleProbeAfterSetup ==
    /\ Cardinality(PostIndexes) <= 1
    /\ \A i \in PostIndexes :
         /\ i = 4
         /\ Len(responses) >= 3
         /\ requests[1] = ApiKeyIdentityRequest(PLATFORM_MANAGER_API_KEY)
         /\ responses[1].status = 200
         /\ requests[2] = ListUsersRequest(PLATFORM_MANAGER_API_KEY)
         /\ responses[2].status = 200
         /\ target_user # None
         /\ Len(typed) >= 1
         /\ session_cookie # <<>>
         /\ ~Blank(typed[1])
         /\ requests[3].method = "GET"
         /\ requests[3].url = CurrentUserUrl
         /\ requests[3].cookies.dw_cookie = session_cookie
         /\ responses[3].status = 200
         /\ ~HasBearer(requests[i])
         /\ requests[i].cookies.dw_cookie = session_cookie
         /\ requests[i].params.creditee_id = target_user.id
    /\ \A i \in 1..Len(requests) :
         HasBearer(requests[i]) => (i \in {1, 2} /\ requests[i].method = "GET")

C9_Witness ==
    /\ PostIssued
    /\ Len(responses) = 4
    /\ session_cookie = <<"c", "2">>
    /\ requests[4].params.creditee_id = "u2"

\* C10: in every run in which the POST is issued, the creditee is a different
\* account from the owner of the session cookie.
C10_CrediteeIsAnotherAccount ==
    \A i \in PostIndexes :
        requests[i].params.creditee_id # Get(standard_user, "id", NoneStr)

====
